---- MODULE Spec2Model ----
(***************************************************************************)
(* Virtual input and viewport capture subsystem:                           *)
(*   - ScrollController  (src/src/scroll_controller.py)                    *)
(*   - OSKManager        (src/src/osk_manager.py)                          *)
(*   - ScreenshotEngine  (src/src/screenshot_engine.py)                    *)
(*   - RedditAutomationScheduler (src/src/scheduler.py)                    *)
(* Python's None is the empty tuple, an Optional value x is <<x>>.         *)
(***************************************************************************)
EXTENDS Integers, Sequences, FiniteSets, TLC

VARIABLES
    \* ---- ScrollController ----
    position,                     \* self.position : ScrollPosition
    consecutive_same_screenshots, \* self.consecutive_same_screenshots
    end_detection_threshold,      \* self.end_detection_threshold
    max_scrolls,                  \* self.max_scrolls
    sac_pc,                       \* where scroll_and_capture stands
    sac_max,                      \* its max_scrolls after defaulting
    sac_i,                        \* its loop variable i
    sac_screenshot,               \* its local screenshot
    sac_checked,                  \* the frame this step gave detect_end_of_page
    sac_passed,                   \* the frame this step gave capture_callback
    sac_results,                  \* its local results
    sac_events,                   \* what this run did, in order
    sac_returned,                 \* the list it returned
    sac_fresh,                    \* history: the run began on a fresh engine
    streak,                       \* history: identical frames fed since fresh
    was_at_bottom,                \* history: is_at_bottom before the last call
    lastOp,                       \* history: the last method called
    scroll_last,                  \* history: its argument, result and wheel calls
    \* ---- OSKManager ----
    calibration,                  \* self.calibration : key -> <<x, y>>
    is_calibrated,                \* self.is_calibrated
    osk_window_bounds,            \* self.osk_window_bounds
    osk_running,                  \* an osk.exe process exists (is_osk_running)
    cal_file,                     \* the file at self.config_path
    key_clicks,                   \* the clicks the last call emitted, in order
    osk_last,                     \* history: the last OSKManager call
    \* ---- ScreenshotEngine ----
    osk_bounds,                   \* self.osk_bounds
    screen,                       \* the size of the screen that is grabbed
    cap_last,                     \* history: the last ScreenshotEngine call
    \* ---- RedditBrowserController.scroll_feed ----
    feed_pc,                      \* where scroll_feed stands
    feed_i,                       \* the scroll_index its callback is given next
    captured_posts,               \* its local captured_posts
    \* ---- RedditAutomationScheduler ----
    settings_file,                \* the file at config/scroll_settings.json
    scroller,                     \* self.scroller, as its constructor left it
    sched_osk,                    \* self.osk is set; its fields are the OSKManager's
    sched_reddit,                 \* self.reddit
    run_log,                      \* history: launches, closes and exit of this run
    sched_pc,                     \* where the scheduler's thread stands
    job_due,                      \* schedule: the daily job is pending
    sessions                      \* history: the phase of every session so far

scrollVars == <<position, consecutive_same_screenshots, end_detection_threshold,
                max_scrolls, sac_pc, sac_max, sac_i, sac_screenshot, sac_checked,
                sac_passed, sac_results, sac_events, sac_returned, sac_fresh,
                streak, was_at_bottom, lastOp, scroll_last>>

oskVars == <<calibration, is_calibrated, osk_window_bounds, osk_running, cal_file,
             key_clicks, osk_last>>

capVars == <<osk_bounds, screen, cap_last, feed_pc, feed_i, captured_posts>>

schedVars == <<settings_file, scroller, sched_osk, sched_reddit, run_log, sched_pc,
               job_due, sessions>>

vars == <<scrollVars, oskVars, capVars, schedVars>>

\* what the methods of one component leave alone
nonScrollVars == <<oskVars, capVars, schedVars>>
nonOskVars == <<scrollVars, capVars, schedVars>>
nonCapVars == <<scrollVars, oskVars, schedVars>>
nonSchedVars == <<scrollVars, oskVars, capVars>>

None == <<>>
Some(x) == <<x>>

(* ------------------------------ bounds --------------------------------- *)
\* scroll_and_capture runs with at most this many steps
MaxSteps == 4
\* stand-alone scroll_down / scroll_up calls happen while scroll_count is below this
MaxScrollCount == 1
\* stand-alone detect_end_of_page calls happen while the counter is below this
MaxConsecutive == 3

(* --------------------------- program constants ------------------------- *)
DefaultScrollClicks == -3
DefaultEndThreshold == 3
PixelsPerClick == 100

\* Frames by their mean luminance over the 64x64 grey thumbnail, in thousandths.
\* The first two are different frames with the same two-decimal signature.
Frames == {127001, 127004, 200000}

\* Values the settings file may give for end_of_page_threshold and
\* max_scrolls_per_page, the built-in default among them.
Thresholds == {2, DefaultEndThreshold}
MaxScrollsSettings == {MaxSteps}

(* ------------------------------ ScrollPosition ------------------------- *)
ScrollPosition0 ==
    [total_distance |-> 0, scroll_count |-> 0,
     last_screenshot_hash |-> None, is_at_bottom |-> FALSE]

Abs(n) == IF n < 0 THEN -n ELSE n

\* _image_hash: f"{avg:.2f}" of the mean luminance, here the number of hundredths
\* as a string. Every frame here can be resized and converted, so the fallback
\* to str(time.time()) is not taken.
ImageHash(frame) == ToString((frame + 5) \div 10)

\* "if clicks is None: clicks = self.scroll_clicks"
DownClicks(clicks) == IF clicks = None THEN DefaultScrollClicks ELSE clicks[1]

\* "if clicks is None: clicks = abs(self.scroll_clicks)"
UpClicks(clicks) == IF clicks = None THEN Abs(DefaultScrollClicks) ELSE clicks[1]

\* scroll_down(clicks): the position afterwards. wheelOk is whether
\* pyautogui.scroll delivered the event; when it raises nothing is updated.
\* variant: the count goes up by the number of clicks
ScrollDownPosCountingClicks(pos, clicks, wheelOk) ==
    LET c == DownClicks(clicks)
    IN  IF wheelOk
        THEN [pos EXCEPT !.scroll_count = @ + Abs(c),
                         !.total_distance = @ + Abs(c * PixelsPerClick)]
        ELSE pos

ScrollDownPos(pos, clicks, wheelOk) ==
    LET c == DownClicks(clicks)
    IN  IF wheelOk
        THEN [pos EXCEPT !.scroll_count = @ + 1,
                         !.total_distance = @ + Abs(c * PixelsPerClick)]
        ELSE pos

\* scroll_up(clicks)
ScrollUpPos(pos, clicks, wheelOk) ==
    LET c == UpClicks(clicks)
    IN  IF wheelOk
        THEN [pos EXCEPT !.scroll_count = @ + 1,
                         !.total_distance = @ - Abs(c * PixelsPerClick)]
        ELSE pos

\* detect_end_of_page(screenshot) with a screenshot given: the counter, the
\* position and the value returned.
\* variant: a changed frame counts as the first match
DetectCounterOffByOne(pos, counter, frame) ==
    IF pos.last_screenshot_hash = Some(ImageHash(frame)) THEN counter + 1 ELSE 1

\* variant: a changed frame leaves the counter as it is
DetectCounterKept(pos, counter, frame) ==
    IF pos.last_screenshot_hash = Some(ImageHash(frame)) THEN counter + 1 ELSE counter

DetectCounter(pos, counter, frame) ==
    IF pos.last_screenshot_hash = Some(ImageHash(frame)) THEN counter + 1 ELSE 0

\* variant: the threshold has to be exceeded
DetectHitStrict(pos, counter, threshold, frame) ==
    DetectCounter(pos, counter, frame) > threshold

DetectHit(pos, counter, threshold, frame) ==
    DetectCounter(pos, counter, frame) >= threshold

\* variant: is_at_bottom follows the counter in both directions
DetectPosClearing(pos, counter, threshold, frame) ==
    [pos EXCEPT !.last_screenshot_hash = Some(ImageHash(frame)),
                !.is_at_bottom = DetectHit(pos, counter, threshold, frame)]

DetectPos(pos, counter, threshold, frame) ==
    LET p == [pos EXCEPT !.last_screenshot_hash = Some(ImageHash(frame))]
    IN  IF DetectHit(pos, counter, threshold, frame)
        THEN [p EXCEPT !.is_at_bottom = TRUE]
        ELSE p

(* ============================ OSKManager =============================== *)
ControlKeys == {"space", "enter", "backspace", "shift"}
Digits == {"0", "1", "2", "3", "4", "5", "6", "7", "8", "9"}
LowerLetters == {"a", "b", "c", "d", "e", "f", "g", "h", "i", "j", "k", "l", "m",
                 "n", "o", "p", "q", "r", "s", "t", "u", "v", "w", "x", "y", "z"}

\* str.lower() on the uppercase letters; every other character used here is its
\* own lowercase form
UpperToLower ==
    ("A" :> "a") @@ ("B" :> "b") @@ ("C" :> "c") @@ ("D" :> "d") @@ ("E" :> "e") @@
    ("F" :> "f") @@ ("G" :> "g") @@ ("H" :> "h") @@ ("I" :> "i") @@ ("J" :> "j") @@
    ("K" :> "k") @@ ("L" :> "l") @@ ("M" :> "m") @@ ("N" :> "n") @@ ("O" :> "o") @@
    ("P" :> "p") @@ ("Q" :> "q") @@ ("R" :> "r") @@ ("S" :> "s") @@ ("T" :> "t") @@
    ("U" :> "u") @@ ("V" :> "v") @@ ("W" :> "w") @@ ("X" :> "x") @@ ("Y" :> "y") @@
    ("Z" :> "z")

IsUpper(char) == char \in DOMAIN UpperToLower
Lower(char) == IF IsUpper(char) THEN UpperToLower[char] ELSE char

\* _get_default_qwerty_layout
DefaultQwertyLayout ==
    ("1" :> <<80, 830>>) @@ ("2" :> <<160, 830>>) @@ ("3" :> <<240, 830>>) @@
    ("4" :> <<320, 830>>) @@ ("5" :> <<400, 830>>) @@ ("6" :> <<480, 830>>) @@
    ("7" :> <<560, 830>>) @@ ("8" :> <<640, 830>>) @@ ("9" :> <<720, 830>>) @@
    ("0" :> <<800, 830>>) @@
    ("q" :> <<80, 890>>) @@ ("w" :> <<160, 890>>) @@ ("e" :> <<240, 890>>) @@
    ("r" :> <<320, 890>>) @@ ("t" :> <<400, 890>>) @@ ("y" :> <<480, 890>>) @@
    ("u" :> <<560, 890>>) @@ ("i" :> <<640, 890>>) @@ ("o" :> <<720, 890>>) @@
    ("p" :> <<800, 890>>) @@
    ("a" :> <<100, 950>>) @@ ("s" :> <<180, 950>>) @@ ("d" :> <<260, 950>>) @@
    ("f" :> <<340, 950>>) @@ ("g" :> <<420, 950>>) @@ ("h" :> <<500, 950>>) @@
    ("j" :> <<580, 950>>) @@ ("k" :> <<660, 950>>) @@ ("l" :> <<740, 950>>) @@
    ("z" :> <<220, 1010>>) @@ ("x" :> <<300, 1010>>) @@ ("c" :> <<380, 1010>>) @@
    ("v" :> <<460, 1010>>) @@ ("b" :> <<520, 1010>>) @@ ("n" :> <<600, 1010>>) @@
    ("m" :> <<680, 1010>>) @@
    ("space" :> <<520, 1070>>) @@ ("backspace" :> <<900, 830>>) @@
    ("enter" :> <<920, 950>>) @@ ("shift" :> <<60, 1010>>) @@
    ("." :> <<760, 1010>>) @@ ("," :> <<700, 1010>>) @@ ("/" :> <<840, 1010>>) @@
    ("-" :> <<880, 830>>) @@ ("'" :> <<820, 950>>)

Restrict(f, keys) == [k \in keys |-> f[k]]
EmptyMap == Restrict(DefaultQwertyLayout, {})

\* detect_osk_bounds on a 1920x1080 screen: (0, int(height * 0.75), 1000, height)
DetectedBounds == <<0, 810, 1000, 1080>>

\* json.dump of the "keys" object: one member per label, written as the label
\* and the two numbers of its array
JsonDump(cal) == {<<k, cal[k][1], cal[k][2]>> : k \in DOMAIN cal}

\* json.load and data.get('keys', {}): the dict of the members read
\* variant: the two numbers of a member change places
JsonLoadSwapped(members) ==
    [k \in {m[1] : m \in members} |->
        LET m == CHOOSE n \in members : n[1] = k IN <<m[3], m[2]>>]

JsonLoad(members) ==
    [k \in {m[1] : m \in members} |->
        LET m == CHOOSE n \in members : n[1] = k IN <<m[2], m[3]>>]

\* The file at config_path: absent, not JSON, JSON that is not an object, or an
\* object whose "keys" has the members given (no "keys" entry reads as none).
FileOf(kind, keys) == [kind |-> kind, keys |-> keys]
AbsentFile == FileOf("absent", {})
DocFile(cal) == FileOf("doc", JsonDump(cal))

\* the maps a calibration file may hold: the whole layout, the layout without
\* the space key, the layout without the b key, letters only, nothing
FileMaps ==
    {DefaultQwertyLayout,
     Restrict(DefaultQwertyLayout, DOMAIN DefaultQwertyLayout \ {"space"}),
     Restrict(DefaultQwertyLayout, DOMAIN DefaultQwertyLayout \ {"b"}),
     Restrict(DefaultQwertyLayout, {"a", "b"}),
     EmptyMap}

UnparsableFile == FileOf("unparsable", {})

Files ==
    {AbsentFile, UnparsableFile, FileOf("not_object", {})}
        \cup {DocFile(m) : m \in FileMaps}

\* load_calibration: the map, the flag and the value returned. Only a parsed
\* object assigns anything; a missing file returns False and any exception is
\* caught and returns False.
LoadedCalibration(cal, file) ==
    IF file.kind = "doc" THEN JsonLoad(file.keys) ELSE cal

\* variant: any parsed object sets the flag
LoadedFlagParsed(flag, file) ==
    IF file.kind = "doc" THEN TRUE ELSE flag

LoadedFlag(flag, file) ==
    IF file.kind = "doc" THEN DOMAIN JsonLoad(file.keys) # {} ELSE flag

LoadReturns(file) == file.kind = "doc"

\* click_key(key): the click emitted, none for a key that is not in the map
Click(key, coords) == [key |-> key, x |-> coords[1], y |-> coords[2]]

ClickKey(cal, key) ==
    IF key \in DOMAIN cal THEN <<Click(key, cal[key])>> ELSE <<>>

\* type_text, the body of "for char in text": the clicks for one character
\* variant: shift is not clicked again after the letter
CharClicksShiftNotReleased(cal, char) ==
    IF IsUpper(char)
    THEN ClickKey(cal, "shift") \o ClickKey(cal, Lower(char))
    ELSE IF char = " " THEN ClickKey(cal, "space")
    ELSE IF Lower(char) \in DOMAIN cal THEN ClickKey(cal, Lower(char))
    ELSE <<>>

CharClicks(cal, char) ==
    IF IsUpper(char)
    THEN ClickKey(cal, "shift") \o ClickKey(cal, Lower(char)) \o ClickKey(cal, "shift")
    ELSE IF char = " " THEN ClickKey(cal, "space")
    ELSE IF Lower(char) \in DOMAIN cal THEN ClickKey(cal, Lower(char))
    ELSE <<>>

\* variant: the characters are typed last to first
RECURSIVE TextClicksReversed(_, _)
TextClicksReversed(cal, text) ==
    IF text = <<>> THEN <<>>
    ELSE TextClicksReversed(cal, Tail(text)) \o CharClicks(cal, Head(text))

RECURSIVE TextClicks(_, _)
TextClicks(cal, text) ==
    IF text = <<>> THEN <<>>
    ELSE CharClicks(cal, Head(text)) \o TextClicks(cal, Tail(text))

\* the texts typed: "Ab", "a b", "B!1", "Q7, ", ""
Texts == {<<"A", "b">>, <<"a", " ", "b">>, <<"B", "!", "1">>,
          <<"Q", "7", ",", " ">>, <<>>}

\* launch_osk when no process runs: Popen raises or no process appears
\* ("failed"), or the process appears and detect_osk_bounds runs, which sets the
\* bounds unless its screenshot raises.
LaunchOutcomes == {"failed", "started", "started_no_bounds"}

LaunchRuns(outcome) == outcome # "failed"

LaunchBounds(bounds, outcome) ==
    IF outcome = "started" THEN Some(DetectedBounds) ELSE bounds

\* history of a call: what was called, with what, what it returned, how many
\* times it called launch_osk, the state it was called in, and whether it came
\* right after a save_calibration that returned True and whose file is still
\* the one at config_path (arg of a save is the file it left)
OskCall(op, arg, ret, launches) ==
    [op |-> op, arg |-> arg, ret |-> ret, launches |-> launches,
     pre_running |-> osk_running, pre_calibrated |-> is_calibrated,
     pre_calibration |-> calibration,
     after_save |-> /\ osk_last.op = "save_calibration"
                    /\ osk_last.ret = TRUE
                    /\ osk_last.arg = cal_file]

\* OSKManager.__init__: empty map, flag False, then load_calibration
OSKManagerInit ==
    /\ cal_file \in Files
    /\ osk_running \in BOOLEAN
    /\ calibration = LoadedCalibration(EmptyMap, cal_file)
    /\ is_calibrated = LoadedFlag(FALSE, cal_file)
    /\ osk_window_bounds = None
    /\ key_clicks = <<>>
    /\ osk_last = [op |-> "init", arg |-> None, ret |-> TRUE, launches |-> 0,
                   pre_running |-> osk_running, pre_calibrated |-> FALSE,
                   pre_calibration |-> EmptyMap, after_save |-> FALSE]

\* an OSKManager that was constructed without a file and is not used
OSKManagerAtRest ==
    /\ OSKManagerInit
    /\ cal_file = AbsentFile
    /\ osk_running = FALSE

load_calibration ==
    /\ calibration' = LoadedCalibration(calibration, cal_file)
    /\ is_calibrated' = LoadedFlag(is_calibrated, cal_file)
    /\ key_clicks' = <<>>
    /\ osk_last' = OskCall("load_calibration", cal_file, LoadReturns(cal_file), 0)
    /\ UNCHANGED <<osk_window_bounds, osk_running, cal_file, nonOskVars>>

launch_osk ==
    /\ \E outcome \in LaunchOutcomes :
          IF osk_running
          THEN /\ UNCHANGED <<osk_running, osk_window_bounds>>
               /\ osk_last' = OskCall("launch_osk", None, TRUE, 0)
          ELSE /\ osk_running' = LaunchRuns(outcome)
               /\ osk_window_bounds' = LaunchBounds(osk_window_bounds, outcome)
               /\ osk_last' = OskCall("launch_osk", None, LaunchRuns(outcome), 1)
    /\ key_clicks' = <<>>
    /\ UNCHANGED <<calibration, is_calibrated, cal_file, nonOskVars>>

\* close_osk, or the process ending on its own
close_osk ==
    /\ osk_running
    /\ osk_running' = FALSE
    /\ key_clicks' = <<>>
    /\ osk_last' = OskCall("close_osk", None, TRUE, 0)
    /\ UNCHANGED <<calibration, is_calibrated, osk_window_bounds, cal_file, nonOskVars>>

\* the calibration file is replaced from outside the program
file_replaced ==
    /\ \E file \in Files : cal_file' = file
    /\ cal_file' # cal_file
    /\ UNCHANGED <<calibration, is_calibrated, osk_window_bounds, osk_running,
                   key_clicks, osk_last, nonOskVars>>

\* save_calibration: the file afterwards. mkdir or open may raise before the
\* file is touched; open(..., 'w') truncates, so a failure in json.dump leaves a
\* document that does not parse.
SaveOutcomes == {"saved", "not_opened", "cut_short"}

SavedFile(file, cal, outcome) ==
    IF outcome = "saved" THEN DocFile(cal)
    ELSE IF outcome = "cut_short" THEN UnparsableFile
    ELSE file

calibrate ==
    \E force \in BOOLEAN, launch \in LaunchOutcomes, grabbed \in BOOLEAN,
       detected \in BOOLEAN, save \in SaveOutcomes :
        LET launches == IF osk_running THEN 0 ELSE 1
            running == osk_running \/ LaunchRuns(launch)
            launched_bounds == IF osk_running THEN osk_window_bounds
                               ELSE LaunchBounds(osk_window_bounds, launch)
            bounds == IF launched_bounds = None /\ detected
                      THEN Some(DetectedBounds) ELSE launched_bounds
        IN  /\ key_clicks' = <<>>
            /\ UNCHANGED nonOskVars
            /\ IF is_calibrated /\ ~force
               THEN /\ osk_last' = OskCall("calibrate", force, TRUE, 0)
                    /\ UNCHANGED <<calibration, is_calibrated, osk_window_bounds,
                                   osk_running, cal_file>>
               ELSE IF ~running
               THEN /\ osk_last' = OskCall("calibrate", force, FALSE, launches)
                    /\ osk_running' = FALSE
                    /\ UNCHANGED <<calibration, is_calibrated, osk_window_bounds,
                                   cal_file>>
               ELSE IF ~grabbed
               THEN /\ osk_last' = OskCall("calibrate", force, FALSE, launches)
                    /\ osk_running' = TRUE
                    /\ osk_window_bounds' = bounds
                    /\ UNCHANGED <<calibration, is_calibrated, cal_file>>
               ELSE /\ osk_last' = OskCall("calibrate", force, TRUE, launches)
                    /\ osk_running' = TRUE
                    /\ osk_window_bounds' = bounds
                    /\ calibration' = DefaultQwertyLayout
                    /\ is_calibrated' = TRUE
                    /\ cal_file' = SavedFile(cal_file, DefaultQwertyLayout, save)

\* type_text before the loop: launch_osk is called when the flag is set and no
\* process runs; the characters are typed when the flag is set and a process
\* runs then
\* variant: a keyboard that is not running is not launched
TypeTextNeverLaunches(calibrated, running) == 0

TypeTextLaunches(calibrated, running) == IF calibrated /\ ~running THEN 1 ELSE 0

\* variant: the flag is not looked at
TypeTextTypesUncalibrated(calibrated, running) == running

TypeTextTypes(calibrated, running) == calibrated /\ running

type_text ==
    \E text \in Texts, launch \in LaunchOutcomes :
        LET launches == TypeTextLaunches(is_calibrated, osk_running)
            running == IF launches = 1 THEN LaunchRuns(launch) ELSE osk_running
            types == TypeTextTypes(is_calibrated, running)
        IN  /\ UNCHANGED <<calibration, is_calibrated, cal_file, nonOskVars>>
            /\ osk_last' = OskCall("type_text", text, types, launches)
            /\ osk_running' = running
            /\ osk_window_bounds' =
                  IF launches = 1 THEN LaunchBounds(osk_window_bounds, launch)
                  ELSE osk_window_bounds
            /\ key_clicks' = IF types THEN TextClicks(calibration, text) ELSE <<>>

\* backspace(count): click_key('backspace') count times, returns True
BackspaceCounts == {0, 1, 2}

RECURSIVE BackspaceClicks(_, _)
BackspaceClicks(cal, count) ==
    IF count = 0 THEN <<>>
    ELSE ClickKey(cal, "backspace") \o BackspaceClicks(cal, count - 1)

backspace ==
    /\ \E count \in BackspaceCounts :
          /\ key_clicks' = BackspaceClicks(calibration, count)
          /\ osk_last' = OskCall("backspace", count, TRUE, 0)
    /\ UNCHANGED <<calibration, is_calibrated, osk_window_bounds, osk_running,
                   cal_file, nonOskVars>>

\* press_enter: returns click_key('enter')
press_enter ==
    /\ key_clicks' = ClickKey(calibration, "enter")
    /\ osk_last' = OskCall("press_enter", None, "enter" \in DOMAIN calibration, 0)
    /\ UNCHANGED <<calibration, is_calibrated, osk_window_bounds, osk_running,
                   cal_file, nonOskVars>>

\* save_calibration called on its own
save_calibration ==
    /\ \E save \in SaveOutcomes :
          /\ cal_file' = SavedFile(cal_file, calibration, save)
          /\ osk_last' = OskCall("save_calibration", cal_file', save = "saved", 0)
    /\ key_clicks' = <<>>
    /\ UNCHANGED <<calibration, is_calibrated, osk_window_bounds, osk_running,
                   nonOskVars>>

NextOSK ==
    \/ load_calibration
    \/ launch_osk
    \/ close_osk
    \/ file_replaced
    \/ calibrate
    \/ save_calibration
    \/ type_text
    \/ backspace
    \/ press_enter

(* ------------------------------ history -------------------------------- *)
\* streak.n is the number of frames given to detect_end_of_page since the engine
\* was fresh (constructed or reset), as long as they all had the signature
\* streak.sig; it is -1 once that is no longer so.
FreshStreak == [n |-> 0, sig |-> None]
NoStreak == [n |-> -1, sig |-> None]

StreakAfterDetect(st, frame) ==
    IF st.n = 0 THEN [n |-> 1, sig |-> Some(ImageHash(frame))]
    ELSE IF st.n >= 1 /\ st.sig = Some(ImageHash(frame)) THEN [st EXCEPT !.n = @ + 1]
    ELSE NoStreak

\* One call of pyautogui.scroll: the delta given and whether it was delivered
\* (it raises otherwise).
WheelCall(delta, ok) == [delta |-> delta, ok |-> ok]

\* history of a call from outside: its argument, the value it returned and the
\* wheel calls it made, in order. For scroll_and_capture the argument is in
\* sac_max and the wheel calls are in sac_events.
ScrollCall(arg, ret, wheel) == [arg |-> arg, ret |-> ret, wheel |-> wheel]

(* ------------------------------ initial state -------------------------- *)
\* ScrollController.__init__
ScrollControllerInit ==
    /\ position = ScrollPosition0
    /\ consecutive_same_screenshots = 0
    /\ end_detection_threshold \in Thresholds
    /\ max_scrolls \in MaxScrollsSettings
    /\ sac_pc = "idle"
    /\ sac_max = 0
    /\ sac_i = 0
    /\ sac_screenshot = None
    /\ sac_checked = None
    /\ sac_passed = None
    /\ sac_results = <<>>
    /\ sac_events = <<>>
    /\ sac_returned = None
    /\ sac_fresh = FALSE
    /\ streak = FreshStreak
    /\ was_at_bottom = FALSE
    /\ lastOp = "init"
    /\ scroll_last = ScrollCall(None, None, <<>>)

sacVars == <<sac_pc, sac_max, sac_i, sac_screenshot, sac_checked, sac_passed,
             sac_results, sac_events, sac_returned, sac_fresh>>
cfgVars == <<end_detection_threshold, max_scrolls>>

Idle == sac_pc = "idle"

\* a method is called from outside: the history of the call
Called(op) ==
    /\ lastOp' = op
    /\ was_at_bottom' = position.is_at_bottom

(* ------------------------------ operations ----------------------------- *)
ClickArgs == {None, Some(-1)}
UpClickArgs == {None, Some(1)}

scroll_down ==
    /\ Idle
    /\ position.scroll_count < MaxScrollCount
    /\ \E clicks \in ClickArgs, wheelOk \in BOOLEAN :
          /\ position' = ScrollDownPos(position, clicks, wheelOk)
          /\ scroll_last' = ScrollCall(clicks, wheelOk,
                                       <<WheelCall(DownClicks(clicks), wheelOk)>>)
    /\ Called("scroll_down")
    /\ UNCHANGED <<consecutive_same_screenshots, cfgVars, nonScrollVars, sacVars, streak>>

scroll_up ==
    /\ Idle
    /\ position.scroll_count < MaxScrollCount
    /\ \E clicks \in UpClickArgs, wheelOk \in BOOLEAN :
          /\ position' = ScrollUpPos(position, clicks, wheelOk)
          /\ scroll_last' = ScrollCall(clicks, wheelOk,
                                       <<WheelCall(UpClicks(clicks), wheelOk)>>)
    /\ Called("scroll_up")
    /\ UNCHANGED <<consecutive_same_screenshots, cfgVars, nonScrollVars, sacVars, streak>>

\* scroll_to_top: "for _ in range(20): self.scroll_up(clicks=10)"
TopScrolls == 20
TopClicks == 10

\* the iterations of that loop whose wheel call raises: none, one, all
TopFailures == {{}, {2}, 0..(TopScrolls - 1)}

\* the wheel calls of the loop from iteration k on. scroll_up catches what its
\* wheel call raises and its result is ignored, so the loop always goes on.
\* variant: the loop ends when a scroll_up fails
RECURSIVE UpwardCallsUntilFailure(_, _)
UpwardCallsUntilFailure(k, failing) ==
    IF k >= TopScrolls \/ k \in failing THEN <<>>
    ELSE <<WheelCall(TopClicks, TRUE)>> \o UpwardCallsUntilFailure(k + 1, failing)

RECURSIVE UpwardCalls(_, _)
UpwardCalls(k, failing) ==
    IF k >= TopScrolls THEN <<>>
    ELSE <<WheelCall(UpClicks(Some(TopClicks)), k \notin failing)>>
             \o UpwardCalls(k + 1, failing)

\* scroll_to_top: twenty scroll_up(clicks=10) calls whose results are ignored,
\* then a new ScrollPosition; the counter is not touched.
scroll_to_top ==
    /\ Idle
    /\ position' = ScrollPosition0
    /\ \E failing \in TopFailures :
          scroll_last' = ScrollCall(None, TRUE, UpwardCalls(0, failing))
    /\ streak' = IF streak.n = 0 THEN streak ELSE NoStreak
    /\ Called("scroll_to_top")
    /\ UNCHANGED <<consecutive_same_screenshots, cfgVars, nonScrollVars, sacVars>>

scroll_step ==
    /\ Idle
    /\ position.scroll_count < MaxScrollCount
    /\ \E wheelOk \in BOOLEAN :
          IF position.is_at_bottom
          THEN /\ position' = position
               /\ scroll_last' = ScrollCall(None, FALSE, <<>>)
          ELSE /\ position' = ScrollDownPos(position, None, wheelOk)
               /\ scroll_last' = ScrollCall(None, wheelOk,
                                            <<WheelCall(DownClicks(None), wheelOk)>>)
    /\ Called("scroll_step")
    /\ UNCHANGED <<consecutive_same_screenshots, cfgVars, nonScrollVars, sacVars, streak>>

\* detect_end_of_page(screenshot): with no screenshot given it grabs one itself,
\* and when that grab raises the exception is caught, nothing is changed and
\* False is returned. The argument in the history is whether a screenshot was
\* given and the frame that was processed.
detect_end_of_page ==
    /\ Idle
    /\ consecutive_same_screenshots < MaxConsecutive
    /\ \E frame \in Frames, given \in BOOLEAN, grabbed \in BOOLEAN :
          IF given \/ grabbed
          THEN /\ position' = DetectPos(position, consecutive_same_screenshots,
                                        end_detection_threshold, frame)
               /\ consecutive_same_screenshots' =
                     DetectCounter(position, consecutive_same_screenshots, frame)
               /\ streak' = StreakAfterDetect(streak, frame)
               /\ scroll_last' =
                     ScrollCall(<<given, Some(frame)>>,
                                DetectHit(position, consecutive_same_screenshots,
                                          end_detection_threshold, frame),
                                <<>>)
          ELSE /\ scroll_last' = ScrollCall(<<given, None>>, FALSE, <<>>)
               /\ UNCHANGED <<position, consecutive_same_screenshots, streak>>
    /\ Called("detect_end_of_page")
    /\ UNCHANGED <<cfgVars, nonScrollVars, sacVars>>

\* variant: only the position is replaced
resetKeepingCounter ==
    /\ Idle
    /\ position' = ScrollPosition0
    /\ streak' = FreshStreak
    /\ scroll_last' = ScrollCall(None, None, <<>>)
    /\ Called("reset")
    /\ UNCHANGED <<consecutive_same_screenshots, cfgVars, nonScrollVars, sacVars>>

reset ==
    /\ Idle
    /\ position' = ScrollPosition0
    /\ consecutive_same_screenshots' = 0
    /\ streak' = FreshStreak
    /\ scroll_last' = ScrollCall(None, None, <<>>)
    /\ Called("reset")
    /\ UNCHANGED <<cfgVars, nonScrollVars, sacVars>>

(* ------------------------- scroll_and_capture -------------------------- *)
\* One entry of sac_events: what the loop did (kind), in which iteration (step),
\* and how it went (ok): the grab returned a frame, the check returned True,
\* the callback returned a result that was appended, scroll_down returned True.
Event(kind, step, ok) == [kind |-> kind, step |-> step, ok |-> ok]

\* what capture_callback(screenshot, i) does: return a result, return None, raise
CallbackOutcomes == {"value", "none", "raise"}

\* results.append(result) for a result that is not None; the result of the call
\* made in iteration i is written i
\* variant: whatever the call did, an entry is appended
AppendResultAlways(results, outcome, step) == Append(results, step)

AppendResult(results, outcome, step) ==
    IF outcome = "value" THEN Append(results, step) ELSE results

\* "for i in range(max_scrolls)": another iteration, or the end of the loop
\* variant: one iteration too many
LoopHeadInclusive(i, max) == IF i <= max THEN "capture" ELSE "done"

LoopHead(i, max) == IF i < max THEN "capture" ELSE "done"

\* after the grab: on to the check; an exception leaves the method at once
\* variant: the frame goes to the callback unchecked
AfterCaptureUnchecked(grabbed) == IF grabbed THEN "callback" ELSE "raised"

AfterCapture(grabbed) == IF grabbed THEN "check" ELSE "raised"

\* "if self.detect_end_of_page(screenshot): break"
\* variant: no break at the end of the page
AfterCheckNoBreak(hit) == "callback"

AfterCheck(hit) == IF hit THEN "done" ELSE "callback"

\* "if not self.scroll_down(): break"
\* variant: the result of scroll_down is ignored
AfterScrollNoBreak(wheelOk, i, max) == LoopHead(i + 1, max)

AfterScroll(wheelOk, i, max) == IF wheelOk THEN LoopHead(i + 1, max) ELSE "done"

MaxArgs == {None} \cup {Some(n) : n \in 0..MaxSteps}

\* entry: max_scrolls defaults to the configured value, results = []
sac_start ==
    /\ Idle
    /\ position.scroll_count <= MaxScrollCount
    /\ consecutive_same_screenshots <= MaxConsecutive
    /\ \E arg \in MaxArgs :
          sac_max' = IF arg = None THEN max_scrolls ELSE arg[1]
    /\ sac_pc' = LoopHead(0, sac_max')
    /\ sac_returned' = IF sac_pc' = "done" THEN Some(<<>>) ELSE None
    /\ sac_i' = 0
    /\ sac_screenshot' = None
    /\ sac_checked' = None
    /\ sac_passed' = None
    /\ sac_results' = <<>>
    /\ sac_events' = <<>>
    /\ sac_fresh' = (streak.n = 0)
    /\ scroll_last' = ScrollCall(None, None, <<>>)
    /\ Called("scroll_and_capture")
    /\ UNCHANGED <<position, consecutive_same_screenshots, cfgVars, nonScrollVars, streak>>

\* screenshot = pyautogui.screenshot()
sac_capture ==
    /\ sac_pc = "capture"
    /\ \/ \E frame \in Frames :
             /\ sac_screenshot' = Some(frame)
             /\ sac_events' = Append(sac_events, Event("capture", sac_i, TRUE))
             /\ sac_pc' = AfterCapture(TRUE)
       \/ /\ sac_screenshot' = None
          /\ sac_events' = Append(sac_events, Event("capture", sac_i, FALSE))
          /\ sac_pc' = AfterCapture(FALSE)
    /\ sac_checked' = None
    /\ sac_passed' = None
    /\ UNCHANGED <<position, consecutive_same_screenshots, cfgVars, nonScrollVars, sac_max, sac_i,
                   sac_results, sac_returned, sac_fresh, streak, was_at_bottom,
                   lastOp, scroll_last>>

\* self.detect_end_of_page(screenshot)
sac_check ==
    /\ sac_pc = "check"
    /\ LET frame == sac_screenshot[1]
           hit == DetectHit(position, consecutive_same_screenshots,
                            end_detection_threshold, frame)
       IN  /\ position' = DetectPos(position, consecutive_same_screenshots,
                                    end_detection_threshold, frame)
           /\ consecutive_same_screenshots' =
                 DetectCounter(position, consecutive_same_screenshots, frame)
           /\ streak' = StreakAfterDetect(streak, frame)
           /\ sac_checked' = Some(frame)
           /\ sac_events' = Append(sac_events, Event("check", sac_i, hit))
           /\ sac_pc' = AfterCheck(hit)
    /\ sac_returned' = IF sac_pc' = "done" THEN Some(sac_results) ELSE None
    /\ UNCHANGED <<cfgVars, nonScrollVars, sac_max, sac_i, sac_screenshot, sac_passed, sac_results,
                   sac_fresh, was_at_bottom, lastOp, scroll_last>>

\* result = capture_callback(screenshot, i), inside try/except
sac_callback ==
    /\ sac_pc = "callback"
    /\ \E outcome \in CallbackOutcomes :
          /\ sac_results' = AppendResult(sac_results, outcome, sac_i)
          /\ sac_events' = Append(sac_events,
                                  Event("callback", sac_i, outcome = "value"))
    /\ sac_passed' = sac_screenshot
    /\ sac_pc' = "scroll"
    /\ UNCHANGED <<position, consecutive_same_screenshots, cfgVars, nonScrollVars, sac_max, sac_i,
                   sac_screenshot, sac_checked, sac_returned, sac_fresh, streak,
                   was_at_bottom, lastOp, scroll_last>>

\* self.scroll_down(), then the next iteration
sac_scroll ==
    /\ sac_pc = "scroll"
    /\ \E wheelOk \in BOOLEAN :
          /\ position' = ScrollDownPos(position, None, wheelOk)
          /\ sac_events' = Append(sac_events, Event("scroll", sac_i, wheelOk))
          /\ sac_pc' = AfterScroll(wheelOk, sac_i, sac_max)
    /\ sac_i' = IF sac_pc' = "capture" THEN sac_i + 1 ELSE sac_i
    /\ sac_returned' = IF sac_pc' = "done" THEN Some(sac_results) ELSE None
    /\ UNCHANGED <<consecutive_same_screenshots, cfgVars, nonScrollVars, sac_max, sac_screenshot,
                   sac_checked, sac_passed, sac_results, sac_fresh, streak,
                   was_at_bottom, lastOp, scroll_last>>

\* the caller has the list (or the exception) and the engine is idle again
sac_return ==
    /\ sac_pc \in {"done", "raised"}
    /\ sac_pc' = "idle"
    /\ sac_max' = 0
    /\ sac_i' = 0
    /\ sac_screenshot' = None
    /\ sac_checked' = None
    /\ sac_passed' = None
    /\ sac_results' = <<>>
    /\ sac_events' = <<>>
    /\ sac_returned' = None
    /\ sac_fresh' = FALSE
    /\ UNCHANGED <<position, consecutive_same_screenshots, cfgVars, nonScrollVars, streak,
                   was_at_bottom, lastOp, scroll_last>>

\* the statements of one call, from entry to return
sac_body ==
    \/ sac_capture
    \/ sac_check
    \/ sac_callback
    \/ sac_scroll
    \/ sac_return

NextScroll ==
    \/ scroll_down
    \/ scroll_up
    \/ scroll_to_top
    \/ scroll_step
    \/ detect_end_of_page
    \/ reset
    \/ sac_start
    \/ sac_body

(* ========================== ScreenshotEngine =========================== *)
\* An image by its size and the screen position of its first pixel.
Image(width, height, left, upper) ==
    [width |-> width, height |-> height, left |-> left, upper |-> upper]

\* pyautogui.screenshot(): the whole screen
FullFrame(scr) == Image(scr.width, scr.height, 0, 0)

\* Image.crop((left, upper, right, lower))
Crop(img, box) ==
    Image(box[3] - box[1], box[4] - box[2], img.left + box[1], img.upper + box[2])

Screens == {[width |-> 1920, height |-> 1080], [width |-> 1280, height |-> 720]}

\* the values given for osk_bounds: none, the region of the engine's own
\* example, the region OSKManager.detect_osk_bounds reports
Regions == {None, Some(<<0, 800, 1000, 1080>>), Some(DetectedBounds)}

\* capture_viewport(exclude_osk) on the frame capture_full_screen returned
\* (None when the grab raised): the image returned, None after an exception
\* variant: the frame is never cropped
CaptureViewportUncropped(full, exclude_osk, bounds) == full

CaptureViewport(full, exclude_osk, bounds) ==
    IF ~exclude_osk \/ bounds = None THEN full
    ELSE IF full = None THEN None
    ELSE Some(Crop(full[1], <<0, 0, full[1].width, bounds[1][2]>>))

\* detect_post_boundaries: post_height, the gap between posts, the side margin
PostHeight == 250
PostGap == 10
SideMargin == 50

\* "post_bottom = min(current_top + post_height, viewport_bottom)"
\* variant: the bottom is not clipped
PostBottomUnclipped(current_top, viewport_bottom) == current_top + PostHeight

PostBottom(current_top, viewport_bottom) ==
    IF current_top + PostHeight < viewport_bottom
    THEN current_top + PostHeight
    ELSE viewport_bottom

\* "current_top = post_bottom + 10"
\* variant: no gap between posts
NextTopNoGap(post_bottom) == post_bottom

NextTop(post_bottom) == post_bottom + PostGap

\* the while loop of detect_post_boundaries
RECURSIVE PostsFrom(_, _, _)
PostsFrom(current_top, viewport_bottom, width) ==
    IF current_top < viewport_bottom
    THEN LET post_bottom == PostBottom(current_top, viewport_bottom)
         IN  <<<<SideMargin, current_top, width - SideMargin, post_bottom>>>>
                 \o PostsFrom(NextTop(post_bottom), viewport_bottom, width)
    ELSE <<>>

DetectPostBoundaries(screenshot, viewport_top, viewport_bottom) ==
    PostsFrom(viewport_top, viewport_bottom, screenshot.width)

DefaultViewportTop == 200
DefaultViewportBottom == 900

\* map_post_elements(post_bounds)
ElementNames == {"upvote", "downvote", "comment", "share", "save"}

MapPostElements(b) ==
    ("upvote" :> <<b[1] + 30, b[2] + 50>>) @@
    ("downvote" :> <<b[1] + 30, b[2] + 80>>) @@
    ("comment" :> <<b[1] + 120, b[2] + b[4] - 50>>) @@
    ("share" :> <<b[1] + 220, b[2] + b[4] - 50>>) @@
    ("save" :> <<b[1] + 320, b[2] + b[4] - 50>>)

\* capture_posts(scroll_position): one PostCapture per detected post
PostCapture(viewport, scroll_position, i, bounds) ==
    [image |-> Crop(viewport, bounds), position |-> scroll_position + i,
     bounds |-> bounds, clickable_elements |-> MapPostElements(bounds)]

CapturePosts(full, bounds, scroll_position) ==
    LET viewport == CaptureViewport(full, TRUE, bounds)
    IN  IF viewport = None THEN <<>>
        ELSE LET posts == DetectPostBoundaries(viewport[1], DefaultViewportTop,
                                               DefaultViewportBottom)
             IN  [k \in 1..Len(posts) |->
                     PostCapture(viewport[1], scroll_position, k - 1, posts[k])]

\* history of a call; before is the argument and the result of the call before
\* it when both are map_post_elements
EngineCall(op, arg, ret) ==
    [op |-> op, arg |-> arg, ret |-> ret,
     before |-> IF op = "map_post_elements" /\ cap_last.op = op
                THEN Some(<<cap_last.arg, cap_last.ret>>) ELSE None]

\* ScreenshotEngine.__init__, and a scroll_feed that has not been called
ScreenshotEngineInit ==
    /\ osk_bounds \in Regions
    /\ screen \in Screens
    /\ cap_last = [op |-> "init", arg |-> None, ret |-> None, before |-> None]
    /\ feed_pc = "idle"
    /\ feed_i = 0
    /\ captured_posts = <<>>

\* an engine that was constructed without a region and is not used
ScreenshotEngineAtRest ==
    /\ ScreenshotEngineInit
    /\ osk_bounds = None
    /\ screen = [width |-> 1920, height |-> 1080]

FeedIdle == feed_pc = "idle"

\* the screen grab: a frame, or None when pyautogui.screenshot raised
Grab(grabbed) == IF grabbed THEN Some(FullFrame(screen)) ELSE None

set_osk_bounds ==
    /\ FeedIdle
    /\ \E bounds \in Regions \ {None} :
          /\ osk_bounds' = bounds
          /\ cap_last' = EngineCall("set_osk_bounds", bounds, None)
    /\ UNCHANGED <<screen, feed_pc, feed_i, captured_posts, nonCapVars>>

capture_viewport ==
    /\ FeedIdle
    /\ \E exclude_osk \in BOOLEAN, grabbed \in BOOLEAN :
          cap_last' = EngineCall("capture_viewport", <<exclude_osk, Grab(grabbed)>>,
                                 CaptureViewport(Grab(grabbed), exclude_osk, osk_bounds))
    /\ UNCHANGED <<osk_bounds, screen, feed_pc, feed_i, captured_posts, nonCapVars>>

\* the content spans detect_post_boundaries is called with
ContentTops == {0, DefaultViewportTop}
ContentBottoms == {0, 199, 200, 201, 450, 459, 460, 461, 710, 720, 721,
                   DefaultViewportBottom}

detect_post_boundaries ==
    /\ FeedIdle
    /\ \E exclude_osk \in BOOLEAN, viewport_top \in ContentTops,
          viewport_bottom \in ContentBottoms :
          LET screenshot == CaptureViewport(Grab(TRUE), exclude_osk, osk_bounds)[1]
          IN  cap_last' = EngineCall("detect_post_boundaries",
                                     <<screenshot, viewport_top, viewport_bottom>>,
                                     DetectPostBoundaries(screenshot, viewport_top,
                                                          viewport_bottom))
    /\ UNCHANGED <<osk_bounds, screen, feed_pc, feed_i, captured_posts, nonCapVars>>

\* the blocks map_post_elements is called with: those of the default span, and
\* the first of them moved down or to the right
BlockShifts == {0, 7, 260}

BlocksGiven ==
    LET posts == DetectPostBoundaries(FullFrame(screen), DefaultViewportTop,
                                      DefaultViewportBottom)
        b == posts[1]
    IN  {posts[k] : k \in 1..Len(posts)}
            \cup {<<b[1], b[2] + d, b[3], b[4] + d>> : d \in BlockShifts}
            \cup {<<b[1] + d, b[2], b[3] + d, b[4]>> : d \in BlockShifts}

map_post_elements ==
    /\ FeedIdle
    /\ \E post_bounds \in BlocksGiven :
          cap_last' = EngineCall("map_post_elements", post_bounds,
                                 MapPostElements(post_bounds))
    /\ UNCHANGED <<osk_bounds, screen, feed_pc, feed_i, captured_posts, nonCapVars>>

ScrollPositions == {0, 1, 5}

capture_posts ==
    /\ FeedIdle
    /\ \E scroll_position \in ScrollPositions, grabbed \in BOOLEAN :
          cap_last' = EngineCall("capture_posts", scroll_position,
                                 CapturePosts(Grab(grabbed), osk_bounds,
                                              scroll_position))
    /\ UNCHANGED <<osk_bounds, screen, feed_pc, feed_i, captured_posts, nonCapVars>>

(* -------------------- RedditBrowserController.scroll_feed -------------- *)
\* scroll_feed runs at most this many steps
MaxFeedSteps == 2

\* scroll_feed: captured_posts = [], then scroll_and_capture with the callback
scroll_feed ==
    /\ FeedIdle
    /\ feed_pc' = "callback"
    /\ feed_i' = 0
    /\ captured_posts' = <<>>
    /\ UNCHANGED <<osk_bounds, screen, cap_last, nonCapVars>>

\* capture_callback(screenshot, scroll_index): scroll_and_capture calls it with
\* scroll_index 0, 1, 2, ... until the page ends, a scroll fails, a grab raises
\* or max_scrolls steps are done
feed_callback ==
    /\ feed_pc = "callback"
    /\ \E grabbed \in BOOLEAN, goes_on \in BOOLEAN :
          LET posts == CapturePosts(Grab(grabbed), osk_bounds, feed_i)
          IN  /\ captured_posts' = captured_posts \o posts
              /\ cap_last' = EngineCall("capture_posts", feed_i, posts)
              /\ feed_pc' = IF goes_on /\ feed_i + 1 < MaxFeedSteps
                            THEN "callback" ELSE "done"
    /\ feed_i' = feed_i + 1
    /\ UNCHANGED <<osk_bounds, screen, nonCapVars>>

\* scroll_feed returns
feed_return ==
    /\ feed_pc = "done"
    /\ feed_pc' = "idle"
    /\ feed_i' = 0
    /\ captured_posts' = <<>>
    /\ UNCHANGED <<osk_bounds, screen, cap_last, nonCapVars>>

NextCapture ==
    \/ set_osk_bounds
    \/ capture_viewport
    \/ detect_post_boundaries
    \/ map_post_elements
    \/ capture_posts
    \/ scroll_feed
    \/ feed_callback
    \/ feed_return

(* ===================== ScrollController settings ======================= *)
DefaultMaxScrolls == 10
DefaultWaitAfterScrollMs == 1500

\* A JSON value read from the settings file: Missing for a key that is not
\* there, NotMapping for a value that is not an object (a number, a list, a
\* string), a record of shape "object" for an object.
Missing == [shape |-> "missing"]
NotMapping == [shape |-> "not_mapping"]

Section(max_scrolls_per_page, detection) ==
    [shape |-> "object", max_scrolls_per_page |-> max_scrolls_per_page,
     wait_after_scroll |-> None, detection |-> detection]

Detection(end_of_page_threshold) ==
    [shape |-> "object", end_of_page_threshold |-> end_of_page_threshold]

MouseWheel(scroll_down_clicks) ==
    [shape |-> "object", scroll_down_clicks |-> scroll_down_clicks]

Config(scroll, mouse_wheel) ==
    [shape |-> "object", scroll |-> scroll, mouse_wheel |-> mouse_wheel]

\* {}
EmptyConfig == Config(Missing, Missing)
EmptySection == Section(None, Missing)

SettingsFile(kind, json) == [kind |-> kind, json |-> json]

\* the settings files: absent, not JSON, JSON that is not an object, and objects
\* with no section, with sections of the wrong shape, with values set
SettingsFiles ==
    {SettingsFile("absent", Missing),
     SettingsFile("unparsable", Missing),
     SettingsFile("parsed", NotMapping),
     SettingsFile("parsed", EmptyConfig),
     SettingsFile("parsed", Config(NotMapping, Missing)),
     SettingsFile("parsed", Config(Section(None, NotMapping), Missing)),
     SettingsFile("parsed", Config(Missing, NotMapping)),
     SettingsFile("parsed", Config(Section(Some(5), Detection(Some(2))),
                                   MouseWheel(Some(-5))))}

\* load_config: the parsed value, {} when the file is absent or does not parse
LoadConfig(file) == IF file.kind = "parsed" THEN file.json ELSE EmptyConfig

\* d.get(key, {}): the value when the key is there, {} otherwise
GetSection(value, empty) == IF value = Missing THEN empty ELSE value

\* d.get(key, default) on a number
GetOr(value, default) == IF value = None THEN default ELSE value[1]

\* .get can be called on a dict only; on anything else it raises AttributeError
Readable(value) == value.shape = "object"

Raised == [outcome |-> "raised"]

\* ScrollController.__init__: the settings it ends with, or the exception
NewScrollController(file) ==
    LET config == LoadConfig(file)
        scroll == GetSection(config.scroll, EmptySection)
        mouse_wheel == GetSection(config.mouse_wheel, MouseWheel(None))
        detection == GetSection(scroll.detection, Detection(None))
    IN  IF ~Readable(config) THEN Raised
        ELSE IF ~Readable(scroll) THEN Raised
        ELSE IF ~Readable(mouse_wheel) THEN Raised
        ELSE IF ~Readable(detection) THEN Raised
        ELSE [outcome |-> "built",
              wait_after_scroll |->
                  GetOr(scroll.wait_after_scroll, DefaultWaitAfterScrollMs),
              max_scrolls |-> GetOr(scroll.max_scrolls_per_page, DefaultMaxScrolls),
              scroll_clicks |->
                  GetOr(mouse_wheel.scroll_down_clicks, DefaultScrollClicks),
              end_detection_threshold |->
                  GetOr(detection.end_of_page_threshold, DefaultEndThreshold)]

DefaultSettings ==
    [outcome |-> "built",
     wait_after_scroll |-> DefaultWaitAfterScrollMs,
     max_scrolls |-> DefaultMaxScrolls,
     scroll_clicks |-> DefaultScrollClicks,
     end_detection_threshold |-> DefaultEndThreshold]

(* ===================== RedditAutomationScheduler ======================= *)
\* the scheduler runs at most this many sessions
MaxRuns == 3

\* the calibration files a session may find: none, or the one an earlier
\* calibrate saved
SchedulerCalFiles == {AbsentFile, DocFile(DefaultQwertyLayout)}

\* RedditAutomationScheduler.__init__: no component yet, nothing scheduled
SchedulerInit ==
    /\ settings_file \in SettingsFiles
    /\ scroller = None
    /\ sched_osk = FALSE
    /\ sched_reddit = None
    /\ run_log = <<>>
    /\ sched_pc = "loop"
    /\ job_due = FALSE
    /\ sessions = <<>>

\* a scheduler that is not used
SchedulerAtRest ==
    /\ SchedulerInit
    /\ settings_file = SettingsFile("absent", Missing)

\* the keyboard and its file before the scheduler has made an OSKManager: the
\* fields of the object have the values its constructor starts from
NoOSKManagerYet ==
    /\ cal_file \in SchedulerCalFiles
    /\ osk_running \in BOOLEAN
    /\ calibration = EmptyMap
    /\ is_calibrated = FALSE
    /\ osk_window_bounds = None
    /\ key_clicks = <<>>
    /\ osk_last = [op |-> "init", arg |-> None, ret |-> TRUE, launches |-> 0,
                   pre_running |-> osk_running, pre_calibrated |-> FALSE,
                   pre_calibration |-> EmptyMap, after_save |-> FALSE]

\* the time of the daily run comes, also while a run is still going on
clock_due ==
    /\ ~job_due
    /\ Len(sessions) < MaxRuns
    /\ job_due' = TRUE
    /\ UNCHANGED <<settings_file, scroller, sched_osk, sched_reddit, run_log,
                   sched_pc, sessions, nonSchedVars>>

\* the settings file is replaced between runs
settings_replaced ==
    /\ \E file \in SettingsFiles : settings_file' = file
    /\ settings_file' # settings_file
    /\ UNCHANGED <<scroller, sched_osk, sched_reddit, run_log, sched_pc, job_due,
                   sessions, nonSchedVars>>

\* schedule.run_pending() calls the job in the thread of the loop, which goes on
\* only when the job has returned
\* variant: the job is started and the loop goes on
AfterJobStartDetached == "loop"

AfterJobStart == "init"

\* the session the thread is in, the last one started
Current == Len(sessions)

\* run_daily_scan is entered: from run_pending when the job is due, or called
\* directly as main does
run_daily_scan ==
    /\ sched_pc = "loop"
    /\ Len(sessions) < MaxRuns
    /\ \E direct \in BOOLEAN :
          /\ direct \/ job_due
          /\ job_due' = IF direct THEN job_due ELSE FALSE
    /\ sessions' = Append(sessions, "init")
    /\ run_log' = <<>>
    /\ sched_pc' = AfterJobStart
    /\ UNCHANGED <<settings_file, scroller, sched_osk, sched_reddit, nonSchedVars>>

\* self.reddit: the controller and whether it holds a driver
Controller(driver) == Some([driver |-> driver])

\* cleanup_components: close_browser when self.reddit is set, then close_osk
\* when self.osk is set. close_browser catches what driver.quit() raises, so
\* close_osk is always reached.
CleanupCalls(osk_set, reddit) ==
    (IF reddit # None THEN <<"close_browser">> ELSE <<>>)
        \o (IF osk_set THEN <<"close_osk">> ELSE <<>>)

\* close_browser: "self.driver.quit(); self.driver = None", with a quit that
\* returns
ClosedController(reddit) ==
    IF reddit # None /\ reddit[1].driver THEN Controller(FALSE) ELSE reddit

\* close_osk terminates the osk.exe process it finds
ClosedKeyboard(osk_set, running) == IF osk_set THEN FALSE ELSE running

\* initialize_components, "self.osk = OSKManager()": the map and the flag
\* load_calibration leaves, no bounds
init_osk ==
    /\ sched_pc = "init"
    /\ sched_osk' = TRUE
    /\ calibration' = LoadedCalibration(EmptyMap, cal_file)
    /\ is_calibrated' = LoadedFlag(FALSE, cal_file)
    /\ osk_window_bounds' = None
    /\ sched_pc' = "init_launch"
    /\ UNCHANGED <<settings_file, scroller, sched_reddit, run_log, job_due, sessions,
                   osk_running, cal_file, key_clicks, osk_last, capVars, scrollVars>>

\* the except clause of initialize_components: cleanup_components, return False
InitFailed(log, reddit) ==
    log \o CleanupCalls(TRUE, reddit) \o <<"init_failed">>

\* initialize_components, launch_osk and "if not self.osk.is_calibrated:
\* self.osk.calibrate()". launch, detected, grabbed and save are the outcomes of
\* launch_osk and of calibrate's detect_osk_bounds, screenshot and
\* save_calibration.
init_launch ==
    /\ sched_pc = "init_launch"
    /\ \E launch \in LaunchOutcomes, detected \in BOOLEAN, grabbed \in BOOLEAN,
          save \in SaveOutcomes :
          LET running == osk_running \/ LaunchRuns(launch)
              launched_bounds == IF osk_running THEN osk_window_bounds
                                 ELSE LaunchBounds(osk_window_bounds, launch)
              calibrates == running /\ ~is_calibrated
              bounds == IF calibrates /\ launched_bounds = None /\ detected
                        THEN Some(DetectedBounds) ELSE launched_bounds
              calibrated == calibrates /\ grabbed
              ok == running /\ (is_calibrated \/ calibrated)
              log == IF ~osk_running /\ LaunchRuns(launch)
                     THEN Append(run_log, "launch_osk") ELSE run_log
          IN  /\ osk_window_bounds' = bounds
              /\ calibration' = IF calibrated THEN DefaultQwertyLayout
                                ELSE calibration
              /\ is_calibrated' = (is_calibrated \/ calibrated)
              /\ cal_file' = IF calibrated
                             THEN SavedFile(cal_file, DefaultQwertyLayout, save)
                             ELSE cal_file
              /\ IF ok
                 THEN /\ osk_running' = running
                      /\ run_log' = log
                      /\ sched_pc' = "init_build"
                      /\ UNCHANGED <<sched_reddit, sessions>>
                 ELSE /\ osk_running' = ClosedKeyboard(TRUE, running)
                      /\ sched_reddit' = ClosedController(sched_reddit)
                      /\ run_log' = InitFailed(log, sched_reddit)
                      /\ sched_pc' = "cleanup"
                      /\ sessions' = [sessions EXCEPT ![Current] = "cleanup"]
    /\ UNCHANGED <<settings_file, scroller, sched_osk, job_due, key_clicks,
                   osk_last, capVars, scrollVars>>

\* initialize_components from RedditScrollController() on: the screenshot engine
\* is given get_osk_region(), then the analyzer and the controller are made and
\* the browser is launched. llm_ok is whether OptionsEduLLMAnalyzer() returned,
\* browser_ok whether launch_browser did.
init_build ==
    /\ sched_pc = "init_build"
    /\ \E llm_ok \in BOOLEAN, browser_ok \in BOOLEAN :
          LET built == NewScrollController(settings_file)
              engine_made == built # Raised
              reddit_made == engine_made /\ llm_ok
              reddit == IF reddit_made THEN Controller(browser_ok) ELSE sched_reddit
              log == IF reddit_made /\ browser_ok
                     THEN Append(run_log, "launch_browser") ELSE run_log
              ok == reddit_made /\ browser_ok
          IN  /\ scroller' = Some([file |-> settings_file, built |-> built])
              /\ osk_bounds' = IF engine_made THEN osk_window_bounds ELSE osk_bounds
              /\ IF ok
                 THEN /\ sched_reddit' = reddit
                      /\ run_log' = log
                      /\ sched_pc' = "scan"
                      /\ sessions' = [sessions EXCEPT ![Current] = "scan"]
                      /\ UNCHANGED osk_running
                 ELSE /\ osk_running' = ClosedKeyboard(TRUE, osk_running)
                      /\ sched_reddit' = ClosedController(reddit)
                      /\ run_log' = InitFailed(log, reddit)
                      /\ sched_pc' = "cleanup"
                      /\ sessions' = [sessions EXCEPT ![Current] = "cleanup"]
    /\ UNCHANGED <<settings_file, sched_osk, job_due, calibration, is_calibrated,
                   osk_window_bounds, cal_file, key_clicks, osk_last, screen,
                   cap_last, feed_pc, feed_i, captured_posts, scrollVars>>

\* initialize_components as run_daily_scan calls it; a failure is caught, cleaned
\* up after and makes run_daily_scan return, through its finally clause
initialize_components ==
    \/ init_osk
    \/ init_launch
    \/ init_build

\* open_reddit and the keywords: open_reddit returns False, the scan completes,
\* or an exception leaves the try block
ScanOutcomes == {"open_failed", "completed", "raised"}

\* every way out of the try block goes through "finally"
\* variant: the early return leaves the method at once
AfterScanEarlyReturn(outcome) == IF outcome = "open_failed" THEN "loop" ELSE "cleanup"

AfterScan(outcome) == "cleanup"

\* the pointer is driven until the scan returns or raises; the feed is captured
\* with the region the engine was given
scan ==
    /\ sched_pc = "scan"
    /\ \E outcome \in ScanOutcomes, grabbed \in BOOLEAN :
          /\ sched_pc' = AfterScan(outcome)
          /\ run_log' = Append(run_log, outcome)
          /\ cap_last' = IF outcome = "open_failed" THEN cap_last
                         ELSE EngineCall("capture_viewport", <<TRUE, Grab(grabbed)>>,
                                         CaptureViewport(Grab(grabbed), TRUE,
                                                         osk_bounds))
    /\ sessions' = [sessions EXCEPT ![Current] =
                       IF sched_pc' = "cleanup" THEN "cleanup" ELSE "finished"]
    /\ UNCHANGED <<settings_file, scroller, sched_osk, sched_reddit, job_due,
                   osk_bounds, screen, feed_pc, feed_i, captured_posts, scrollVars,
                   oskVars>>

\* "finally: self.cleanup_components()", then run_daily_scan returns
cleanup_components ==
    /\ sched_pc = "cleanup"
    /\ sched_reddit' = ClosedController(sched_reddit)
    /\ osk_running' = ClosedKeyboard(sched_osk, osk_running)
    /\ run_log' = run_log \o CleanupCalls(sched_osk, sched_reddit)
    /\ sessions' = [sessions EXCEPT ![Current] = "finished"]
    /\ sched_pc' = "loop"
    /\ UNCHANGED <<settings_file, scroller, sched_osk, job_due, calibration,
                   is_calibrated, osk_window_bounds, cal_file, key_clicks, osk_last,
                   capVars, scrollVars>>

NextScheduler ==
    \/ clock_due
    \/ settings_replaced
    \/ run_daily_scan
    \/ initialize_components
    \/ scan
    \/ cleanup_components

InitScroll ==
    /\ ScrollControllerInit
    /\ OSKManagerAtRest
    /\ ScreenshotEngineAtRest
    /\ SchedulerAtRest

SpecScroll == InitScroll /\ [][NextScroll]_vars

InitOSK ==
    /\ OSKManagerInit
    /\ ScrollControllerInit
    /\ ScreenshotEngineAtRest
    /\ SchedulerAtRest
    /\ end_detection_threshold = DefaultEndThreshold

SpecOSK == InitOSK /\ [][NextOSK]_vars

InitCapture ==
    /\ ScreenshotEngineInit
    /\ SchedulerAtRest
    /\ OSKManagerAtRest
    /\ ScrollControllerInit
    /\ end_detection_threshold = DefaultEndThreshold

SpecCapture == InitCapture /\ [][NextCapture]_vars

InitScheduler ==
    /\ SchedulerInit
    /\ ScreenshotEngineAtRest
    /\ NoOSKManagerYet
    /\ ScrollControllerInit
    /\ end_detection_threshold = DefaultEndThreshold

SpecScheduler == InitScheduler /\ [][NextScheduler]_vars

\* The loop is synchronous: once called, each of its statements runs to its end.
FairSpecScroll == SpecScroll /\ WF_vars(sac_body)

(* ======================= claims: ScrollController ====================== *)
InRun == sac_pc # "idle"

NumEvents(kind) ==
    Cardinality({k \in 1..Len(sac_events) : sac_events[k].kind = kind})

LastEvent == sac_events[Len(sac_events)]

\* this run began on a fresh engine and every frame it checked had one signature
FreshSameFrames == InRun /\ sac_fresh /\ streak.n = NumEvents("check")

\* C2 as stated: from a freshly reset engine with threshold 3, atBottom is false
\* after the first and second identical signature and true after the third.
C2_AtBottomAfterThird ==
    (end_detection_threshold = DefaultEndThreshold /\ streak.n \in 1..3)
        => (position.is_at_bottom <=> streak.n = 3)

\* C2 amended: from a freshly reset engine with threshold 3, atBottom is false
\* after the first, second and third identical signature and true from the
\* fourth on (the third consecutive match).
C2_AtBottomAfterFourth ==
    (end_detection_threshold = DefaultEndThreshold /\ streak.n >= 1)
        => (position.is_at_bottom <=> streak.n >= 4)

C2_Witness ==
    /\ end_detection_threshold = DefaultEndThreshold
    /\ streak.n = 4
    /\ position.is_at_bottom
    /\ lastOp = "detect_end_of_page"

\* C3 as stated: a run on a freshly reset engine with threshold 3 whose first
\* three frames are identical has stopped at the third and has invoked the
\* callback at most twice.
C3_StopsAtThirdFrame ==
    (FreshSameFrames /\ end_detection_threshold = DefaultEndThreshold
       /\ NumEvents("check") >= 3)
        => /\ NumEvents("callback") <= 2
           /\ sac_pc = "done"

\* C3 amended: such a run does not stop on its first three identical frames; it
\* stops when a fourth frame with the same signature is checked, in iteration 3,
\* having invoked the callback exactly three times and scrolled three times.
C3_StopsAtFourthFrame ==
    (FreshSameFrames /\ end_detection_threshold = DefaultEndThreshold)
        => /\ NumEvents("check") <= 4
           /\ \A k \in 1..Len(sac_events) :
                 (sac_events[k].kind = "check" /\ sac_events[k].ok)
                     => sac_events[k].step = 3
           /\ NumEvents("check") = 4
                 => /\ LastEvent = Event("check", 3, TRUE)
                    /\ sac_pc = "done"
                    /\ NumEvents("callback") = 3
                    /\ NumEvents("scroll") = 3

C3_Witness ==
    /\ FreshSameFrames
    /\ end_detection_threshold = DefaultEndThreshold
    /\ NumEvents("check") = 4
    /\ sac_pc = "done"
    /\ sac_max = MaxSteps

\* C5: whatever the state before, right after reset() scrollCount and
\* totalDistance are 0, atBottom is false, lastFrameSignature is unset and the
\* consecutive-match counter is 0.
C5_ResetZeroes ==
    lastOp = "reset"
        => /\ position.scroll_count = 0
           /\ position.total_distance = 0
           /\ position.is_at_bottom = FALSE
           /\ position.last_screenshot_hash = None
           /\ consecutive_same_screenshots = 0

C5_Witness ==
    /\ lastOp = "reset"
    /\ was_at_bottom
    /\ position = ScrollPosition0

\* C6 as stated: once atBottom is true, only reset() makes it false.
C6_OnlyResetClears ==
    [][(position.is_at_bottom /\ lastOp' # "reset") => position'.is_at_bottom]_vars

\* C6 amended: once atBottom is true, only reset() and scrollToTop() make it
\* false; scrollDown, scrollUp, scroll_step, detectEndOfContent (also with a
\* changed frame) and scrollAndCapture leave it true.
C6_OnlyResetOrTopClears ==
    [][(position.is_at_bottom /\ lastOp' \notin {"reset", "scroll_to_top"})
          => position'.is_at_bottom]_vars

\* atBottom is still true after a changed frame has set the counter back to 0
C6_Witness ==
    /\ position.is_at_bottom
    /\ was_at_bottom
    /\ consecutive_same_screenshots = 0
    /\ lastOp = "detect_end_of_page"

\* C7: in every run the events of a step come in the order capture, check,
\* callback, scroll_down; a capture is the first event or follows the previous
\* step's successful scroll_down; the frame checked and the frame given to the
\* callback are the frame captured in that step.
C7_StepOrder ==
    /\ \A k \in 1..Len(sac_events) :
          LET e == sac_events[k]
              prev == sac_events[k - 1]
          IN  /\ e.kind = "capture"
                    => \/ k = 1 /\ e.step = 0
                       \/ k > 1 /\ prev = Event("scroll", e.step - 1, TRUE)
              /\ e.kind = "check"
                    => k > 1 /\ prev = Event("capture", e.step, TRUE)
              /\ e.kind = "callback"
                    => k > 1 /\ prev = Event("check", e.step, FALSE)
              /\ e.kind = "scroll"
                    => k > 1 /\ prev.kind = "callback" /\ prev.step = e.step
    /\ sac_checked # None => sac_checked = sac_screenshot
    /\ sac_passed # None => sac_passed = sac_screenshot /\ sac_passed = sac_checked

C7_Witness ==
    /\ Len(sac_events) >= 7
    /\ LastEvent.kind = "callback"
    /\ LastEvent.step = 1
    /\ sac_passed = sac_checked
    /\ sac_passed # None

\* C8: a check that returns true is the last event of its run: no callback and
\* no scroll_down for that step, nothing in any later step, and the method
\* returns what it had collected.
C8_StopsOnConvergence ==
    \A k \in 1..Len(sac_events) :
        (sac_events[k].kind = "check" /\ sac_events[k].ok)
            => /\ k = Len(sac_events)
               /\ sac_pc = "done"
               /\ sac_returned = Some(sac_results)

C8_Witness ==
    /\ Len(sac_events) >= 1
    /\ LastEvent.kind = "check"
    /\ LastEvent.ok
    /\ LastEvent.step >= 1

\* the results appended by the callbacks of a run, from its events
RECURSIVE Collected(_)
Collected(events) ==
    IF events = <<>> THEN <<>>
    ELSE LET e == events[Len(events)]
             before == Collected(SubSeq(events, 1, Len(events) - 1))
         IN  IF e.kind = "callback" /\ e.ok THEN Append(before, e.step) ELSE before

\* C9: a scroll_down that fails is the last event of its run (no retry, no later
\* capture, callback or scroll) and the method returns the results collected up
\* to and including that step.
C9_StopsOnScrollFailure ==
    \A k \in 1..Len(sac_events) :
        (sac_events[k].kind = "scroll" /\ ~sac_events[k].ok)
            => /\ k = Len(sac_events)
               /\ sac_pc = "done"
               /\ sac_returned = Some(Collected(sac_events))

C9_Witness ==
    /\ Len(sac_events) >= 1
    /\ LastEvent = Event("scroll", 1, FALSE)
    /\ sac_returned = Some(<<0, 1>>)

InLoop == sac_pc \in {"capture", "check", "callback", "scroll"}
Returning == sac_pc \in {"done", "raised"}

\* C10: a run never makes more than maxSteps captures, callbacks or scroll_downs,
\* with maxSteps = 0 it returns the empty list without any of them, and every
\* run that has entered the loop leaves it.
C10_Terminates ==
    /\ [](InRun => /\ NumEvents("capture") <= sac_max
                   /\ NumEvents("callback") <= sac_max
                   /\ NumEvents("scroll") <= sac_max
                   /\ sac_max = 0 => /\ sac_events = <<>>
                                     /\ sac_returned = Some(<<>>))
    /\ (InLoop ~> Returning)

C10_Witness ==
    /\ sac_pc = "done"
    /\ sac_max = MaxSteps
    /\ NumEvents("capture") = sac_max
    /\ NumEvents("scroll") = sac_max

\* the callback events of a run, and those whose result was appended
IsCallback(e) == e.kind = "callback"
IsCollected(e) == e.kind = "callback" /\ e.ok
Invocations == SelectSeq(sac_events, IsCallback)
Collections == SelectSeq(sac_events, IsCollected)

\* C11 as stated: the list returned has exactly one entry for every step on
\* which the callback was invoked, the k-th entry being that of the k-th
\* invocation, and is empty when the callback was never invoked.
C11_OneEntryPerInvocation ==
    sac_returned # None
        => /\ Len(sac_returned[1]) = Len(Invocations)
           /\ \A k \in 1..Len(Invocations) :
                 sac_returned[1][k] = Invocations[k].step

\* C11 amended: the list returned has, in step order, exactly one entry for
\* every invocation of the callback that returned a result; an invocation that
\* returned None or raised contributes no entry, and the list is empty when no
\* invocation returned a result.
C11_OneEntryPerResult ==
    sac_returned # None
        => /\ Len(sac_returned[1]) = Len(Collections)
           /\ \A k \in 1..Len(Collections) :
                 /\ sac_returned[1][k] = Collections[k].step
                 /\ k > 1 => sac_returned[1][k - 1] < sac_returned[1][k]
           /\ Len(sac_returned[1]) <= Len(Invocations)

\* three invocations, the second without a result
C11_Witness ==
    /\ sac_returned = Some(<<0, 2>>)
    /\ Len(Invocations) = 3

\* C12 as stated: a grab that fails ends only its step; the loop goes on with
\* the next iteration, or returns the results collected so far when that was
\* the last one, and the call does not end with the exception.
C12_GrabFailureSkipsStep ==
    \A k \in 1..Len(sac_events) :
        (sac_events[k].kind = "capture" /\ ~sac_events[k].ok)
            => /\ sac_pc # "raised"
               /\ sac_pc = "done" => sac_returned = Some(sac_results)

(* ========================= claims: OSKManager ========================== *)
\* the map the specification calls calibrated: every control key, letter, digit
IsComplete(cal) == (ControlKeys \cup LowerLetters \cup Digits) \subseteq DOMAIN cal

ClickedKeys == [k \in 1..Len(key_clicks) |-> key_clicks[k].key]

\* typeText("Ab") was called with the flag set, the keyboard running and a
\* complete map
TypedAb ==
    /\ osk_last.op = "type_text"
    /\ osk_last.arg = <<"A", "b">>
    /\ osk_last.pre_running
    /\ osk_last.pre_calibrated
    /\ IsComplete(calibration)

\* C1: in every state of the keyboard controller, a map that lacks one of
\* space, enter, backspace, shift goes with a calibrated flag that is false.
C1_ControlKeysRequired ==
    (ControlKeys \ DOMAIN calibration # {}) => ~is_calibrated

\* C4 as stated: typeText("Ab") on a calibrated map with the keyboard running
\* emits exactly 5 clicks, in the order shift, a, shift, b.
C4_FiveClicks ==
    TypedAb => /\ Len(key_clicks) = 5
               /\ ClickedKeys = <<"shift", "a", "shift", "b">>

\* C4 amended: it emits exactly 4 clicks, shift, a, shift, b in that order, each
\* at the coordinates the map stores for the key, and returns success.
C4_FourClicks ==
    TypedAb => /\ key_clicks = <<Click("shift", calibration["shift"]),
                                 Click("a", calibration["a"]),
                                 Click("shift", calibration["shift"]),
                                 Click("b", calibration["b"])>>
               /\ osk_last.ret = TRUE
               /\ osk_last.launches = 0

C4_Witness ==
    /\ TypedAb
    /\ Len(key_clicks) = 4
    /\ ClickedKeys = <<"shift", "a", "shift", "b">>

\* the keys of the macro the specification gives for one character
MacroKeys(char) ==
    IF IsUpper(char) THEN <<"shift", Lower(char), "shift">>
    ELSE IF char = " " THEN <<"space">>
    ELSE <<char>>

RECURSIVE TextKeys(_)
TextKeys(text) ==
    IF text = <<>> THEN <<>> ELSE MacroKeys(Head(text)) \o TextKeys(Tail(text))

AllMapped(cal, text) ==
    \A k \in 1..Len(TextKeys(text)) : TextKeys(text)[k] \in DOMAIN cal

\* type_text was called with the flag set and the keyboard running
TypedWhileReady ==
    /\ osk_last.op = "type_text"
    /\ osk_last.pre_calibrated
    /\ osk_last.pre_running

\* C13: for a text whose characters are all mapped, typed with the flag set and
\* the keyboard running, the clicks are the macros of its characters in text
\* order: shift, letter, shift for an uppercase letter, one click for any other
\* character (space on the space key), each at the key's stored coordinates.
C13_MacrosConcatenated ==
    (TypedWhileReady /\ AllMapped(calibration, osk_last.arg))
        => LET keys == TextKeys(osk_last.arg)
           IN  /\ Len(key_clicks) = Len(keys)
               /\ \A k \in 1..Len(keys) :
                     key_clicks[k] = Click(keys[k], calibration[keys[k]])
               /\ osk_last.ret = TRUE

C13_Witness ==
    /\ TypedWhileReady
    /\ osk_last.arg = <<"Q", "7", ",", " ">>
    /\ AllMapped(calibration, osk_last.arg)
    /\ ClickedKeys = <<"shift", "q", "shift", "7", ",", "space">>

\* the key a character is typed with, and the characters of a text that have one
CharKey(char) == IF char = " " THEN "space" ELSE Lower(char)
HasKey(char) == CharKey(char) \in DOMAIN calibration
Present(text) == SelectSeq(text, HasKey)

\* C14 as stated: a character whose key is not in the map contributes no click:
\* the clicks are those of the text without such characters, and the call
\* returns success.
C14_AbsentCharacterSkipped ==
    TypedWhileReady
        => /\ key_clicks = TextClicks(calibration, Present(osk_last.arg))
           /\ osk_last.ret = TRUE

\* C15: type_text called with the flag false returns failure, emits no click and
\* does not call launch_osk; clicks and launches come only from calls made with
\* the flag true.
C15_UncalibratedRefuses ==
    osk_last.op = "type_text"
        => /\ ~osk_last.pre_calibrated
                 => /\ osk_last.ret = FALSE
                    /\ key_clicks = <<>>
                    /\ osk_last.launches = 0
                    /\ osk_running = osk_last.pre_running
           /\ (key_clicks # <<>> \/ osk_last.launches > 0 \/ osk_last.ret = TRUE)
                 => osk_last.pre_calibrated

C15_Witness ==
    /\ osk_last.op = "type_text"
    /\ ~osk_last.pre_calibrated
    /\ ~osk_last.pre_running
    /\ osk_last.arg = <<"A", "b">>
    /\ osk_last.ret = FALSE

\* C16: type_text called with the flag true and no keyboard running calls
\* launch_osk exactly once; when no keyboard runs afterwards it returns failure
\* without a click, and when one does it types the text and returns success.
C16_RelaunchOnce ==
    (osk_last.op = "type_text" /\ osk_last.pre_calibrated /\ ~osk_last.pre_running)
        => /\ osk_last.launches = 1
           /\ IF osk_running
              THEN /\ osk_last.ret = TRUE
                   /\ key_clicks = TextClicks(calibration, osk_last.arg)
              ELSE /\ osk_last.ret = FALSE
                   /\ key_clicks = <<>>

C16_Witness ==
    /\ osk_last.op = "type_text"
    /\ osk_last.pre_calibrated
    /\ ~osk_last.pre_running
    /\ osk_running
    /\ osk_last.launches = 1
    /\ Len(key_clicks) = 4

\* C17 as stated: type_text, backspace and press_enter emit a click only while
\* the keyboard process runs and the flag is set.
C17_ClicksOnlyWhileRunning ==
    (osk_last.op \in {"type_text", "backspace", "press_enter"} /\ key_clicks # <<>>)
        => /\ osk_running
           /\ is_calibrated

\* C18 as stated: after load_calibration has found the file absent or malformed
\* the map is empty and the flag false, whatever the map was before.
C18_LoadFallsBackToEmpty ==
    (osk_last.op = "load_calibration" /\ osk_last.arg.kind # "doc")
        => /\ calibration = EmptyMap
           /\ ~is_calibrated

\* C19 as stated: whatever happens to a save, the file afterwards is the
\* complete document it had before or the complete document of the map saved.
C19_SaveAtomic ==
    [][(save_calibration \/ calibrate)
          => \/ cal_file' = cal_file
             \/ cal_file' = DocFile(calibration')]_vars

\* C20: load_calibration right after a save_calibration that returned True
\* gives a map with the labels that were saved and the coordinates saved for
\* each of them.
C20_RoundTrip ==
    (osk_last.op = "load_calibration" /\ osk_last.after_save)
        => /\ DOMAIN calibration = DOMAIN osk_last.pre_calibration
           /\ \A k \in DOMAIN calibration :
                 calibration[k] = osk_last.pre_calibration[k]
           /\ osk_last.ret = TRUE

C20_Witness ==
    /\ osk_last.op = "load_calibration"
    /\ osk_last.after_save
    /\ IsComplete(calibration)
    /\ calibration["enter"] = <<920, 950>>

\* a calibrate step that went past the early return and so built a map or failed
CalibrateRan(force) == ~(is_calibrated /\ ~force)

\* C21 as stated: a calibrate that builds a map and returns success leaves the
\* flag true and the file holding the document of that map.
C21_SuccessMeansPersisted ==
    [][(calibrate /\ CalibrateRan(osk_last'.arg) /\ osk_last'.ret = TRUE)
          => /\ is_calibrated'
             /\ cal_file' = DocFile(calibration')]_vars

\* C22 as stated: calibrate(force=False) called with the flag set on a map that
\* has no space key leaves the flag false.
C22_RevalidatesOnCalibrate ==
    (/\ osk_last.op = "calibrate"
     /\ osk_last.arg = FALSE
     /\ osk_last.pre_calibrated
     /\ "space" \notin DOMAIN osk_last.pre_calibration)
        => ~is_calibrated

\* C23 as stated: calibrate calls launch_osk at most once, and when the launch,
\* the grab or the save of the map fails it returns failure with the map, the
\* flag and the file as they were.
C23_FailureLeavesAllUnchanged ==
    [][calibrate
          => /\ osk_last'.launches <= 1
             /\ (\/ osk_last'.ret = FALSE
                 \/ /\ CalibrateRan(osk_last'.arg)
                    /\ cal_file' # DocFile(calibration'))
                   => /\ osk_last'.ret = FALSE
                      /\ calibration' = calibration
                      /\ is_calibrated' = is_calibrated
                      /\ cal_file' = cal_file]_vars

(* ======================= claims: ScreenshotEngine ====================== *)
\* capture_viewport was called and its grab returned a frame
ViewportCaptured ==
    /\ cap_last.op = "capture_viewport"
    /\ cap_last.arg[2] # None

\* C24: capture_viewport(exclude_osk=True) with osk_bounds set returns an image
\* as wide as the grabbed frame and as high as the region's top, made of the
\* rows from the first one down to the one above that top; with
\* exclude_osk=False or no region it returns the grabbed frame itself.
C24_ViewportAboveRegion ==
    ViewportCaptured
        => LET full == cap_last.arg[2][1]
           IN  IF cap_last.arg[1] /\ osk_bounds # None
               THEN /\ cap_last.ret # None
                    /\ cap_last.ret[1].width = full.width
                    /\ cap_last.ret[1].height = osk_bounds[1][2]
                    /\ cap_last.ret[1].left = 0
                    /\ cap_last.ret[1].upper = 0
               ELSE cap_last.ret = Some(full)

C24_Witness ==
    /\ ViewportCaptured
    /\ cap_last.arg[1]
    /\ osk_bounds = Some(<<0, 800, 1000, 1080>>)
    /\ cap_last.ret = Some(Image(1920, 800, 0, 0))

Segmented == cap_last.op = "detect_post_boundaries"

CeilDiv(a, b) == (a + b - 1) \div b

\* C25: detect_post_boundaries returns ceil((bottom - top) / (250 + 10)) blocks
\* for a span with top < bottom (3 for 200..900) and none otherwise.
C25_BlockCount ==
    Segmented
        => LET top == cap_last.arg[2]
               bottom == cap_last.arg[3]
           IN  /\ Len(cap_last.ret) = IF top < bottom
                                      THEN CeilDiv(bottom - top, 250 + 10)
                                      ELSE 0
               /\ (top = 200 /\ bottom = 900) => Len(cap_last.ret) = 3

C25_Witness ==
    /\ Segmented
    /\ cap_last.arg[2] = 200
    /\ cap_last.arg[3] = 710
    /\ Len(cap_last.ret) = 2

\* C26: every block lies inside the span with a height from 1 to 250; the first
\* starts at the top of the span, each next one 10 below the bottom of the one
\* before, and the last ends at its top plus 250 or at the bottom of the span,
\* whichever is less (900 for 200..900).
C26_BlocksInsideSpan ==
    Segmented
        => LET top == cap_last.arg[2]
               bottom == cap_last.arg[3]
               posts == cap_last.ret
               n == Len(posts)
           IN  /\ \A k \in 1..n :
                     /\ top <= posts[k][2]
                     /\ posts[k][4] <= bottom
                     /\ posts[k][4] - posts[k][2] \in 1..250
                     /\ k < n => /\ posts[k + 1][2] = posts[k][4] + 10
                                 /\ posts[k][4] - posts[k][2] = 250
               /\ n >= 1 => /\ posts[1][2] = top
                            /\ \/ posts[n][4] = bottom
                               \/ posts[n][4] = posts[n][2] + 250
               /\ (top = 200 /\ bottom = 900) => posts[n][4] = 900

C26_Witness ==
    /\ Segmented
    /\ cap_last.arg[2] = 200
    /\ cap_last.arg[3] = 900
    /\ Len(cap_last.ret) = 3
    /\ cap_last.ret[3][2] = 720
    /\ cap_last.ret[3][4] = 900

\* C27 as stated: map_post_elements gives the same five names for every block,
\* and for a block moved down by d (top and bottom both) every element's y is
\* d more and its x the same, for a block moved right by d every x is d more
\* and every y the same.
C27_ElementsMoveWithBlock ==
    (cap_last.op = "map_post_elements" /\ cap_last.before # None)
        => LET b0 == cap_last.before[1][1]
               e0 == cap_last.before[1][2]
               b1 == cap_last.arg
               e1 == cap_last.ret
           IN  /\ DOMAIN e1 = ElementNames
               /\ DOMAIN e0 = ElementNames
               /\ \A d \in BlockShifts :
                     /\ b1 = <<b0[1], b0[2] + d, b0[3], b0[4] + d>>
                           => \A name \in ElementNames :
                                 e1[name] = <<e0[name][1], e0[name][2] + d>>
                     /\ b1 = <<b0[1] + d, b0[2], b0[3] + d, b0[4]>>
                           => \A name \in ElementNames :
                                 e1[name] = <<e0[name][1] + d, e0[name][2]>>

\* C28 as stated: no two of the posts collected by one scroll_feed have the same
\* position.
C28_DistinctPositions ==
    \A j, k \in 1..Len(captured_posts) :
        j # k => captured_posts[j].position # captured_posts[k].position

(* ================= claims: settings and scheduler ====================== *)
\* the files that are missing, unparsable, or parsable with a value of the
\* wrong shape
Malformed(file) ==
    \/ file.kind # "parsed"
    \/ file.json = NotMapping
    \/ file.json.scroll = NotMapping
    \/ file.json.mouse_wheel = NotMapping
    \/ /\ file.json.scroll # Missing
       /\ file.json.scroll.detection = NotMapping

\* C29 as stated: a scroll controller constructed from a settings file that is
\* missing, unparsable or of the wrong shape is built, with every setting at
\* its default: threshold 3, max steps 10, wheel clicks -3, delay 1.5 s.
C29_MalformedGivesDefaults ==
    (scroller # None /\ Malformed(scroller[1].file))
        => /\ scroller[1].built # Raised
           /\ scroller[1].built.end_detection_threshold = 3
           /\ scroller[1].built.max_scrolls = 10
           /\ scroller[1].built.scroll_clicks = -3
           /\ scroller[1].built.wait_after_scroll = 1500

\* a session drives the pointer from its start until its cleanup has returned
Active(k) == sessions[k] \in {"init", "scan", "cleanup"}

\* C30: within one scheduler process at most one session is active at a time:
\* when a session starts every earlier one has finished its cleanup.
C30_OneSessionAtATime ==
    \A j, k \in 1..Len(sessions) : (Active(j) /\ Active(k)) => j = k

\* a second session runs, the daily job having become due during the first
C30_Witness ==
    /\ Len(sessions) >= 2
    /\ sessions[2] = "scan"
    /\ sessions[1] = "finished"
    /\ job_due

(* ================= claims: wheel calls and frame checks ================ *)
\* the position after one counted scroll over distance pixels
Scrolled(pos, distance) ==
    [pos EXCEPT !.scroll_count = @ + 1, !.total_distance = @ + distance]

\* the one wheel call the scroll_down or scroll_up of this step made
TheWheelCall == scroll_last.wheel[1]

\* C31: a scrollDown or scrollUp whose wheel event was delivered returns success,
\* adds exactly 1 to scrollCount and changes totalDistance by |clicks| * 100,
\* upwards for scrollDown and downwards for scrollUp (the scrollDown made by
\* scrollAndCapture included); one whose wheel event failed returns failure and
\* leaves ScrollPosition as it was.
C31_ScrollEffect ==
    [][/\ (lastOp' = "scroll_down" /\ scroll_down)
          => /\ scroll_last'.ret = TheWheelCall'.ok
             /\ position' = IF TheWheelCall'.ok
                            THEN Scrolled(position,
                                          Abs(TheWheelCall'.delta) * PixelsPerClick)
                            ELSE position
       /\ (lastOp' = "scroll_up" /\ scroll_up)
          => /\ scroll_last'.ret = TheWheelCall'.ok
             /\ position' = IF TheWheelCall'.ok
                            THEN Scrolled(position,
                                          -(Abs(TheWheelCall'.delta) * PixelsPerClick))
                            ELSE position
       /\ (sac_pc = "scroll" /\ sac_scroll)
          => position' = IF LastEvent'.ok
                         THEN Scrolled(position,
                                       Abs(DefaultScrollClicks) * PixelsPerClick)
                         ELSE position]_vars

\* a fresh engine after one scrollDown with the configured clicks
C31_Witness ==
    /\ lastOp = "scroll_down"
    /\ scroll_last.ret = TRUE
    /\ scroll_last.arg = None
    /\ position = Scrolled(ScrollPosition0, 300)
    /\ streak.n = 0

\* C32: whatever the state before, scrollToTop makes exactly 20 wheel calls, each
\* with the same upward delta and none depending on the position or on what the
\* calls before it did, and then ScrollPosition is at its zero value:
\* scrollCount 0, totalDistance 0, lastFrameSignature unset, atBottom false.
C32_TwentyUpwardThenZero ==
    lastOp = "scroll_to_top"
        => /\ Len(scroll_last.wheel) = 20
           /\ \A k \in 1..Len(scroll_last.wheel) :
                 /\ scroll_last.wheel[k].delta > 0
                 /\ scroll_last.wheel[k].delta = scroll_last.wheel[1].delta
           /\ position.scroll_count = 0
           /\ position.total_distance = 0
           /\ position.last_screenshot_hash = None
           /\ position.is_at_bottom = FALSE

\* scrollToTop at the end of the page, with a wheel call that was not delivered
C32_Witness ==
    /\ lastOp = "scroll_to_top"
    /\ was_at_bottom
    /\ \E k \in 1..Len(scroll_last.wheel) : ~scroll_last.wheel[k].ok

\* this step is a detectEndOfContent call that processed frame, made from outside
\* or by scrollAndCapture
Processed(frame) ==
    \/ /\ lastOp' = "detect_end_of_page"
       /\ detect_end_of_page
       /\ scroll_last'.arg[2] = Some(frame)
    \/ /\ sac_pc = "check"
       /\ sac_check
       /\ sac_checked' = Some(frame)

\* C33: every detectEndOfContent call that processes a frame either adds 1 to
\* the consecutive-match counter, when the frame's signature equals
\* lastFrameSignature, or sets it to 0, when the signature differs or there is
\* no previous signature; afterwards lastFrameSignature is the signature of that
\* frame.
C33_CounterStep ==
    [][\A frame \in Frames :
          Processed(frame)
              => /\ consecutive_same_screenshots' =
                       IF position.last_screenshot_hash = Some(ImageHash(frame))
                       THEN consecutive_same_screenshots + 1
                       ELSE 0
                 /\ position'.last_screenshot_hash = Some(ImageHash(frame))]_vars

\* a call that set a positive counter back to 0
C33_Witness ==
    /\ lastOp = "detect_end_of_page"
    /\ scroll_last.arg[2] # None
    /\ streak.n = -1
    /\ consecutive_same_screenshots = 0
    /\ position.is_at_bottom

(* ======================= claims: calibration map ======================= *)
\* C34: after a calibrate that started from an empty map and returned success,
\* forced or not, the map has the control keys space, enter, backspace and
\* shift, the 26 lowercase letters and the 10 digits.
C34_CalibratedMapComplete ==
    (/\ osk_last.op = "calibrate"
     /\ osk_last.ret = TRUE
     /\ osk_last.pre_calibration = EmptyMap)
        => /\ ControlKeys \subseteq DOMAIN calibration
           /\ LowerLetters \subseteq DOMAIN calibration
           /\ Digits \subseteq DOMAIN calibration
           /\ Cardinality(LowerLetters) = 26
           /\ Cardinality(Digits) = 10

\* an unforced calibrate on an empty map, whose save did not reach the file
C34_Witness ==
    /\ osk_last.op = "calibrate"
    /\ osk_last.ret = TRUE
    /\ osk_last.arg = FALSE
    /\ osk_last.pre_calibration = EmptyMap
    /\ cal_file = AbsentFile
    /\ "shift" \in DOMAIN calibration

(* ===================== claims: session lifecycle ======================= *)
\* run_daily_scan has returned from the session whose log is run_log
Returned == sched_pc = "loop" /\ Len(sessions) > 0

InLog(entry) == \E i \in 1..Len(run_log) : run_log[i] = entry

\* every launch in the log is followed by the close of what was launched
ClosedAfter(launch, close) ==
    \A i \in 1..Len(run_log) :
        run_log[i] = launch
            => \E j \in (i + 1)..Len(run_log) : run_log[j] = close

\* C35: when run_daily_scan has returned, by whichever way (initialisation
\* failed, open-Reddit failed, normal completion, an exception), close was called
\* on the browser after it was launched and on the virtual keyboard after it was
\* launched.
C35_ClosedOnEveryExit ==
    Returned
        => /\ ClosedAfter("launch_browser", "close_browser")
           /\ ClosedAfter("launch_osk", "close_osk")
           /\ \E way \in {"init_failed", "open_failed", "completed", "raised"} :
                 InLog(way)

\* a session that launched both and left on the early return after open-Reddit
\* failed
C35_Witness ==
    /\ Returned
    /\ InLog("launch_osk")
    /\ InLog("launch_browser")
    /\ InLog("open_failed")

(* ===================== claims: captured blocks ========================= *)
\* the last call was a capture_posts, from outside or from the feed's callback
Captured == cap_last.op = "capture_posts"

\* the frame that call cut its blocks from
ViewportFrame == CaptureViewport(Some(FullFrame(screen)), TRUE, osk_bounds)[1]

\* C36 as stated: every block capture_posts returns lies inside the viewport
\* frame it was cut from: its bottom is at most the frame's height and its
\* right edge at most the frame's width.
C36_BlocksInsideFrame ==
    Captured
        => \A k \in 1..Len(cap_last.ret) :
               /\ cap_last.ret[k].bounds[4] <= ViewportFrame.height
               /\ cap_last.ret[k].bounds[3] <= ViewportFrame.width

\* C37 as stated: for every block capture_posts returns, each estimated element
\* coordinate (upvote, downvote, comment, share, save) lies within the block:
\* left <= x <= right and top <= y <= bottom.
C37_ElementsInsideBlock ==
    Captured
        => \A k \in 1..Len(cap_last.ret) :
               LET b == cap_last.ret[k].bounds
                   e == cap_last.ret[k].clickable_elements
               IN  \A name \in {"upvote", "downvote", "comment", "share", "save"} :
                       /\ b[1] <= e[name][1]
                       /\ e[name][1] <= b[3]
                       /\ b[2] <= e[name][2]
                       /\ e[name][2] <= b[4]

(* ==================== claims: flag and counter ========================= *)
\* C38 as stated: in every reachable state, if atBottom is false the
\* consecutive-match counter is below the threshold, and the counter is positive
\* only if lastFrameSignature is set.
C38_FlagAndCounterAgree ==
    /\ ~position.is_at_bottom
          => consecutive_same_screenshots < end_detection_threshold
    /\ consecutive_same_screenshots > 0
          => position.last_screenshot_hash # None

\* C38 amended: in every reachable state in which lastFrameSignature is set, if
\* atBottom is false the counter is below the threshold. (scrollToTop unsets the
\* signature and the flag and leaves the counter, which may then be positive
\* and at the threshold.)
C38_AgreeWhileSignatureSet ==
    (position.last_screenshot_hash # None /\ ~position.is_at_bottom)
        => consecutive_same_screenshots < end_detection_threshold

\* the counter one below the threshold, on an engine that is not fresh
C38_Witness ==
    /\ lastOp = "detect_end_of_page"
    /\ position.last_screenshot_hash # None
    /\ ~position.is_at_bottom
    /\ consecutive_same_screenshots = end_detection_threshold - 1
    /\ streak = NoStreak

\* C39 as stated: a scrollAndCapture that is started while atBottom is true
\* (after convergence, with no reset since) invokes the callback on no step and
\* issues no scrollDown, whatever frames it captures.
C39_NoStepAtBottom ==
    (InRun /\ was_at_bottom)
        => /\ NumEvents("callback") = 0
           /\ NumEvents("scroll") = 0

(* ================= claims: region handed to the engine ================= *)
\* C40 as stated: when initialize_components has succeeded (keyboard launched or
\* found running, calibrated freshly or from the file), the capture engine has
\* been given the keyboard's region, and the viewport the scan captures with
\* the region excluded ends above the keyboard.
C40_RegionHandedOver ==
    /\ sched_pc = "scan" => osk_bounds # None
    /\ (cap_last.op = "capture_viewport" /\ cap_last.ret # None)
          => cap_last.ret[1].height <= DetectedBounds[2]
====
